---------------------------- MODULE Spec2Model ----------------------------
(***************************************************************************)
(* A model of mission_restore/main.py: the restoration of a source file    *)
(* from a development log (an initial snapshot followed by unified-diff    *)
(* blocks).                                                                *)
(*                                                                         *)
(* A text (a Python str) is a sequence of characters, each character a     *)
(* string: a character that a TLA+ string can hold is the string of that   *)
(* one character ("a", " ", "\n", "\t", "\r", "\f"), any other character    *)
(* is Chr(n), n its code point; the sentinel character U+1F98A is written  *)
(* FOX.  Positions are 1-based here where the source's are 0-based: the    *)
(* source's source_lines[p] is source_lines[p + 1] here.  White space,     *)
(* decimal digits and line boundaries are those of Python 3.11 (Unicode    *)
(* 14.0).                                                                  *)
(*                                                                         *)
(* The log and the output are regular files, or missing; the content of a  *)
(* file is the text its bytes are the UTF-8 encoding of, and a file that   *)
(* was cut inside a character ends with PartialChar(c, n), the first n     *)
(* bytes of c.  What the file system does with the output path (whether    *)
(* it can be opened, how many bytes the file takes, whether it names the   *)
(* log file) is part of the state, env.                                    *)
(***************************************************************************)
EXTENDS Integers, Sequences, FiniteSets, TLC

-----------------------------------------------------------------------------
(* Python values *)

\* None, and a value that is not None
None == [isNone |-> TRUE]
Some(v) == [isNone |-> FALSE, val |-> v]

-----------------------------------------------------------------------------
(* str and re primitives *)

FOX == "FOX"
NL == "\n"

Min(S) == CHOOSE m \in S : \A n \in S : m <= n
Max(S) == CHOOSE m \in S : \A n \in S : n <= m

\* The character of code point n, for the characters that are not written
\* as themselves (n in decimal)
Chr(n) == "U+" \o ToString(n)

\* The white space of str.strip() and of \s of the re module (str.isspace):
\* U+0009-000D, U+001C-001F, U+0020, U+0085, U+00A0, U+1680, U+2000-200A,
\* U+2028, U+2029, U+202F, U+205F, U+3000
WhiteSpace ==
    {" ", "\n", "\t", "\r", "\f"}
    \cup {Chr(n) : n \in {11, 28, 29, 30, 31, 133, 160, 5760, 8232, 8233, 8239,
                          8287, 12288} \cup (8192..8202)}

\* \s of the re module
IsSpace(c) == c \in WhiteSpace

\* The code points of the digit zero of the decimal digits other than
\* "0".."9"; the digits 1..9 of each follow its zero
DecimalZeros ==
    {1632, 1776, 1984, 2406, 2534, 2662, 2790, 2918, 3046, 3174, 3302, 3430,
     3558, 3664, 3792, 3872, 4160, 4240, 6112, 6160, 6470, 6608, 6784, 6800,
     6992, 7088, 7232, 7248, 42528, 43216, 43264, 43472, 43504, 43600, 44016,
     65296, 66720, 68912, 69734, 69872, 69942, 70096, 70384, 70736, 70864,
     71248, 71360, 71472, 71904, 72016, 72784, 73040, 73120, 92768, 92864,
     93008, 120782, 120792, 120802, 120812, 120822, 123200, 123632, 125264,
     130032}

\* The decimal digits: what \d of the re module matches and int() reads
DecimalDigits ==
    {"0", "1", "2", "3", "4", "5", "6", "7", "8", "9"}
    \cup {Chr(z + d) : z \in DecimalZeros, d \in 0..9}

\* \d of the re module
IsDigit(c) == c \in DecimalDigits

\* The line boundaries of str.splitlines(): \n, \r (and \r\n as one), U+000B,
\* U+000C, U+001C-001E, U+0085, U+2028, U+2029
LineBoundaries ==
    {"\n", "\r", "\f"} \cup {Chr(n) : n \in {11, 28, 29, 30, 133, 8232, 8233}}

\* s[i-1:].startswith(p): p occurs in s at position i
OccursAt(s, p, i) ==
    /\ i >= 1
    /\ i + Len(p) - 1 <= Len(s)
    /\ \A k \in 1..Len(p) : s[i + k - 1] = p[k]

\* str.startswith
startswith(s, p) == OccursAt(s, p, 1)

\* The first position >= from where p occurs in s, 0 when there is none.
Find(s, p, from) ==
    LET hits == {i \in from..(Len(s) - Len(p) + 1) : OccursAt(s, p, i)}
    IN  IF hits = {} THEN 0 ELSE Min(hits)

\* "$" without re.MULTILINE: the end of s, or just before a final "\n"
AtDollar(s, e) == e = Len(s) + 1 \/ (e = Len(s) /\ s[e] = NL)

\* The end of a lazy "(.*?)" with re.DOTALL that starts at g and is followed
\* by the lookahead "(?=stop|$)": the first position e >= g where stop
\* occurs or "$" matches.
LazyEnd(s, g, stop) ==
    Min({e \in g..(Len(s) + 1) : OccursAt(s, stop, e) \/ AtDollar(s, e)})

\* The first position >= from that holds no white space (Len(s)+1 if none):
\* the end of the longest "\s*" at from.
SpaceRunEnd(s, from) ==
    Min({e \in from..(Len(s) + 1) : e = Len(s) + 1 \/ ~IsSpace(s[e])})

\* str.lstrip('\n')
RECURSIVE lstrip_nl(_)
lstrip_nl(s) ==
    IF s # <<>> /\ Head(s) = NL THEN lstrip_nl(Tail(s)) ELSE s

\* str.strip()
RECURSIVE lstrip(_)
lstrip(s) == IF s # <<>> /\ IsSpace(Head(s)) THEN lstrip(Tail(s)) ELSE s

RECURSIVE rstrip(_)
rstrip(s) ==
    IF s # <<>> /\ IsSpace(s[Len(s)]) THEN rstrip(SubSeq(s, 1, Len(s) - 1))
    ELSE s

strip(s) == rstrip(lstrip(s))

\* str.splitlines(): the pieces between the line boundaries, \r\n being one
\* boundary; a final boundary ends the last line and opens no further one,
\* and the empty text has no line.
RECURSIVE splitlines(_)
splitlines(s) ==
    IF s = <<>> THEN <<>>
    ELSE LET hits == {k \in 1..Len(s) : s[k] \in LineBoundaries}
         IN  IF hits = {} THEN <<s>>
             ELSE LET n == Min(hits)
                      m == IF s[n] = "\r" /\ n < Len(s) /\ s[n + 1] = NL
                           THEN n + 1 ELSE n
                  IN  <<SubSeq(s, 1, n - 1)>> \o splitlines(SubSeq(s, m + 1, Len(s)))

\* "\n".join(lines)
RECURSIVE join(_)
join(lines) ==
    IF lines = <<>> THEN <<>>
    ELSE IF Len(lines) = 1 THEN lines[1]
    ELSE lines[1] \o <<NL>> \o join(Tail(lines))

\* int() of one decimal digit
DigitValue(c) ==
    CASE c = "0" -> 0 [] c = "1" -> 1 [] c = "2" -> 2 [] c = "3" -> 3
      [] c = "4" -> 4 [] c = "5" -> 5 [] c = "6" -> 6 [] c = "7" -> 7
      [] c = "8" -> 8 [] c = "9" -> 9
      [] OTHER -> CHOOSE d \in 0..9 : \E z \in DecimalZeros : c = Chr(z + d)

\* The number a run of decimal digits stands for
RECURSIVE digits_value(_)
digits_value(ds) ==
    IF ds = <<>> THEN 0
    ELSE 10 * digits_value(SubSeq(ds, 1, Len(ds) - 1)) + DigitValue(ds[Len(ds)])

\* sys.get_int_max_str_digits() as Python 3.11 starts with: int() of a str
\* of more digits raises ValueError
INT_MAX_STR_DIGITS == 4300

\* int() of a run of decimal digits (line 135): the number, or None when
\* int() raises ValueError.  Zeros at the front count as digits for the
\* limit and add nothing to the number.
int(ds) ==
    IF Len(ds) > INT_MAX_STR_DIGITS THEN None
    ELSE LET significant == {k \in 1..Len(ds) : DigitValue(ds[k]) # 0}
         IN  Some(IF significant = {} THEN 0
                  ELSE digits_value(SubSeq(ds, Min(significant), Len(ds))))

\* The end of the longest run of digits at from (the first non-digit position)
DigitRunEnd(s, from) ==
    Min({e \in from..(Len(s) + 1) : e = Len(s) + 1 \/ ~IsDigit(s[e])})

-----------------------------------------------------------------------------
(* The log grammar's literals *)

INITIAL_PREFIX ==
    <<FOX, "=", "=", "=", " ", "I", "n", "i", "t", "i", "a", "l", " ",
      "v", "e", "r", "s", "i", "o", "n", " ", "o", "f", " ">>
HEADER_END == <<" ", "=", "=", "=">>
CODE_CHANGES ==
    <<NL, FOX, "=", "=", "=", " ", "C", "o", "d", "e", " ",
      "c", "h", "a", "n", "g", "e", "s", " ", "a", "t">>
PREVIOUS_VERSION ==
    <<"-", "-", "-", " ", "p", "r", "e", "v", "i", "o", "u", "s", " ",
      "v", "e", "r", "s", "i", "o", "n">>
CURRENT_VERSION ==
    <<"+", "+", "+", " ", "c", "u", "r", "r", "e", "n", "t", " ",
      "v", "e", "r", "s", "i", "o", "n">>
NEXT_MARKER == <<NL, FOX, "=", "=", "=">>

-----------------------------------------------------------------------------
(* parse_log_file *)

\* re.search(r"FOX=== Initial version of .*? ===\n(.*?)(?=\nFOX=== Code
\* changes at|$)", log_content, re.DOTALL): group(1), or None.  The lazy
\* ".*?" of the header may run over line ends (re.DOTALL) to the first
\* " ===\n" after the prefix.
initial_version_match(log_content) ==
    LET i == Find(log_content, INITIAL_PREFIX, 1)
        j == IF i = 0 THEN 0
             ELSE Find(log_content, HEADER_END \o <<NL>>, i + Len(INITIAL_PREFIX))
    IN  IF j = 0 THEN None
        ELSE LET g == j + Len(HEADER_END) + 1
                 e == LazyEnd(log_content, g, CODE_CHANGES)
             IN  Some(SubSeq(log_content, g, e - 1))

\* A variant of initial_version_header_match: the second look for the header
\* is left out and the initial code taken to be empty.
header_match_unchecked(log_content) == TRUE

\* re.search(r"FOX=== Initial version of .*? ===", log_content) succeeds:
\* without re.DOTALL the header must close on the line of its prefix.
initial_version_header_match(log_content) ==
    \E i \in 1..Len(log_content) :
        /\ OccursAt(log_content, INITIAL_PREFIX, i)
        /\ \E j \in (i + Len(INITIAL_PREFIX))..Len(log_content) :
              /\ OccursAt(log_content, HEADER_END, j)
              /\ \A k \in (i + Len(INITIAL_PREFIX))..(j - 1) : log_content[k] # NL

\* One match of the diff pattern r"--- previous version\s*\n\+\+\+ current
\* version\s*\n(.*?)(?=\nFOX===|$)" (re.DOTALL) starting at i: the span
\* [g, e) of its group, or None.  Each greedy "\s*\n" ends at the last "\n"
\* of the white space it runs over.
diff_match_at(s, i) ==
    IF ~OccursAt(s, PREVIOUS_VERSION, i) THEN None
    ELSE LET a  == i + Len(PREVIOUS_VERSION)
             w1 == SpaceRunEnd(s, a)
         IN  IF ~(w1 > a /\ s[w1 - 1] = NL /\ OccursAt(s, CURRENT_VERSION, w1))
             THEN None
             ELSE LET b   == w1 + Len(CURRENT_VERSION)
                      w2  == SpaceRunEnd(s, b)
                      nls == {k \in b..(w2 - 1) : s[k] = NL}
                  IN  IF nls = {} THEN None
                      ELSE LET g == Max(nls) + 1
                           IN  Some([g |-> g, e |-> LazyEnd(s, g, NEXT_MARKER)])

\* pattern.findall(log_content) from position pos on: the groups of the
\* successive non-overlapping matches, leftmost first.
RECURSIVE findall_diffs(_, _)
findall_diffs(s, pos) ==
    LET starts == {i \in pos..Len(s) : ~diff_match_at(s, i).isNone}
    IN  IF starts = {} THEN <<>>
        ELSE LET m == diff_match_at(s, Min(starts)).val
             IN  <<SubSeq(s, m.g, m.e - 1)>> \o findall_diffs(s, m.e)

\* parse_log_file: None for (None, None), else the initial code and the diffs
parse_log_file(log_content) ==
    LET m == initial_version_match(log_content)
    IN  IF m.isNone /\ ~initial_version_header_match(log_content) THEN None
        ELSE Some([initial_code |-> IF m.isNone THEN <<>> ELSE lstrip_nl(m.val),
                   diffs |-> findall_diffs(log_content, 1)])

-----------------------------------------------------------------------------
(* apply_single_diff_robust *)

HUNK_MARK == <<"@", "@">>

\* What the function prints when it gives up: the kind of the failure and,
\* for a mismatch, the 1-based line, the expected text and the actual text
\* (EOF past the end of the source).
NoError == [kind |-> "none"]
EOF == [eof |-> TRUE]
Actual(source_lines, source_pointer) ==
    IF source_pointer < Len(source_lines)
    THEN [eof |-> FALSE, text |-> source_lines[source_pointer + 1]]
    ELSE EOF
\* A variant of Mismatch: the line reported is the 0-based pointer.
Mismatch_zero_based(kind, source_lines, source_pointer, line_content) ==
    [kind |-> kind, line |-> source_pointer, expected |-> line_content,
     actual |-> Actual(source_lines, source_pointer)]

Mismatch(kind, source_lines, source_pointer, line_content) ==
    [kind |-> kind, line |-> source_pointer + 1, expected |-> line_content,
     actual |-> Actual(source_lines, source_pointer)]

\* re.match(r"@@ -(\d+),?(\d*) \+(\d+),?(\d*)", hunk_header.strip()) (line
\* 128): match.group(1), or None when the header does not match
header_match(hunk_header) ==
    LET h  == strip(hunk_header)
        d1 == DigitRunEnd(h, 5)
        c1 == IF d1 <= Len(h) /\ h[d1] = "," THEN d1 + 1 ELSE d1
        d2 == DigitRunEnd(h, c1)
        d3 == DigitRunEnd(h, d2 + 2)
    IN  IF /\ OccursAt(h, <<"@", "@", " ", "-">>, 1)
           /\ d1 > 5
           /\ OccursAt(h, <<" ", "+">>, d2)
           /\ d3 > d2 + 2
        THEN Some(SubSeq(h, 5, d1 - 1))
        ELSE None

\* Lines 128-138: the old start of a hunk header, or None when the header
\* does not match (line 131) or int() raises on its digits (line 138)
old_start_of(hunk_header) ==
    LET match == header_match(hunk_header)
    IN  IF match.isNone THEN None ELSE int(match.val)

\* A variant of line_matches: the pointer is tested and the text is not.
line_matches_unverified(source_lines, source_pointer, line_content) ==
    source_pointer < Len(source_lines)

\* A variant of line_matches: trailing white space is not compared.
line_matches_trimmed(source_lines, source_pointer, line_content) ==
    /\ source_pointer < Len(source_lines)
    /\ rstrip(source_lines[source_pointer + 1]) = rstrip(line_content)

\* The test of a context or removed line (lines 156 and 168), negated: the
\* pointer is inside the source and the source line there is line_content.
line_matches(source_lines, source_pointer, line_content) ==
    /\ source_pointer < Len(source_lines)
    /\ source_lines[source_pointer + 1] = line_content

\* A variant of hunk_line: a line with a marker other than " ", "+" and "-"
\* is checked against the source as a context line is, with its whole text.
hunk_line_strict(source_lines, st, line) ==
    IF st.error # NoError \/ line = <<>> THEN st
    ELSE IF Head(line) = "+"
         THEN [st EXCEPT !.result_lines = Append(@, Tail(line))]
    ELSE LET line_content == IF Head(line) \in {" ", "-"} THEN Tail(line) ELSE line
         IN  IF ~line_matches(source_lines, st.source_pointer, line_content)
             THEN [st EXCEPT !.error =
                     Mismatch(IF Head(line) = "-" THEN "DeletionMismatch"
                              ELSE "ContextMismatch",
                              source_lines, st.source_pointer, line_content)]
             ELSE IF Head(line) = "-"
                  THEN [st EXCEPT !.source_pointer = @ + 1]
                  ELSE [st EXCEPT !.result_lines = Append(@, line_content),
                                  !.source_pointer = @ + 1]

\* One line of a hunk body (the body of the loop of lines 149-175), on the
\* state st of the function: result_lines, source_pointer,
\* last_source_line_processed and error (set when the function returns None).
hunk_line(source_lines, st, line) ==
    IF st.error # NoError \/ line = <<>> THEN st
    ELSE LET op == Head(line)
             line_content == Tail(line)
         IN  CASE op = " " ->
                    IF ~line_matches(source_lines, st.source_pointer, line_content)
                    THEN [st EXCEPT !.error =
                            Mismatch("ContextMismatch", source_lines,
                                     st.source_pointer, line_content)]
                    ELSE [st EXCEPT !.result_lines = Append(@, line_content),
                                    !.source_pointer = @ + 1]
               [] op = "+" ->
                    [st EXCEPT !.result_lines = Append(@, line_content)]
               [] op = "-" ->
                    IF ~line_matches(source_lines, st.source_pointer, line_content)
                    THEN [st EXCEPT !.error =
                            Mismatch("DeletionMismatch", source_lines,
                                     st.source_pointer, line_content)]
                    ELSE [st EXCEPT !.source_pointer = @ + 1]
               [] OTHER -> st

RECURSIVE hunk_body_loop(_, _, _)
hunk_body_loop(source_lines, st, hunk_body) ==
    IF hunk_body = <<>> THEN st
    ELSE hunk_body_loop(source_lines,
                        hunk_line(source_lines, st, Head(hunk_body)),
                        Tail(hunk_body))

\* source_lines[lo:hi] of Python, lo and hi 0-based, hi cut to the length
Slice(lines, lo, hi) == SubSeq(lines, lo + 1, IF hi < Len(lines) THEN hi ELSE Len(lines))

\* The copy of the unchanged lines between the previous hunk and this one
\* (lines 142-143)
copy_through(source_lines, st, old_start) ==
    IF old_start > 0 /\ old_start - 1 > st.last_source_line_processed
    THEN [st EXCEPT !.result_lines =
            @ \o Slice(source_lines, st.last_source_line_processed, old_start - 1)]
    ELSE st

\* A variant of start_pointer: the old start is taken as a 0-based index.
start_pointer_zero_based(old_start) == old_start

\* The pointer a hunk starts from (line 146)
start_pointer(old_start) == IF old_start > 0 THEN old_start - 1 ELSE 0

\* One hunk (the body of the loop of lines 121-178)
apply_hunk(source_lines, st, hunk_header, hunk_body) ==
    IF st.error # NoError THEN st
    ELSE LET match == header_match(hunk_header)
         IN  IF match.isNone
             THEN [st EXCEPT !.error = [kind |-> "BadHunkHeader", header |-> hunk_header]]
             ELSE IF int(match.val).isNone
             THEN [st EXCEPT !.error =
                      [kind |-> "HeaderNumberConversion", header |-> hunk_header]]
             ELSE LET old_start == int(match.val).val
                      copied == copy_through(source_lines, st, old_start)
                      walked == hunk_body_loop(
                                    source_lines,
                                    [copied EXCEPT !.source_pointer = start_pointer(old_start)],
                                    hunk_body)
                  IN  IF walked.error # NoError THEN walked
                      ELSE [walked EXCEPT !.last_source_line_processed = walked.source_pointer]

\* hunk_indices (line 119), 1-based: the lines that start with "@@"
hunk_indices(diff_lines) ==
    {i \in 1..Len(diff_lines) : startswith(diff_lines[i], HUNK_MARK)}

\* The hunks of a diff in order, each its header and its body (lines 122-125)
hunks_of(diff_lines) ==
    LET idx == hunk_indices(diff_lines)
        nth[k \in 1..Cardinality(idx)] ==
            IF k = 1 THEN Min(idx) ELSE Min({i \in idx : i > nth[k - 1]})
    IN  [k \in 1..Cardinality(idx) |->
            LET start_index == nth[k]
                end_index == IF k < Cardinality(idx) THEN nth[k + 1]
                             ELSE Len(diff_lines) + 1
            IN  [header |-> diff_lines[start_index],
                 body |-> SubSeq(diff_lines, start_index + 1, end_index - 1)]]

RECURSIVE hunk_loop(_, _, _)
hunk_loop(source_lines, st, hunks) ==
    IF hunks = <<>> THEN st
    ELSE hunk_loop(source_lines,
                   apply_hunk(source_lines, st, Head(hunks).header, Head(hunks).body),
                   Tail(hunks))

\* A variant of copy_tail: the copy starts one line late.
copy_tail_late(source_lines, st) ==
    IF st.last_source_line_processed < Len(source_lines)
    THEN st.result_lines
            \o Slice(source_lines, st.last_source_line_processed + 1, Len(source_lines))
    ELSE st.result_lines

\* The copy of the rest of the source after the last hunk (lines 181-182)
copy_tail(source_lines, st) ==
    IF st.last_source_line_processed < Len(source_lines)
    THEN st.result_lines
            \o Slice(source_lines, st.last_source_line_processed, Len(source_lines))
    ELSE st.result_lines

\* A variant of added_or_blank: a hunk header passes as well.
added_blank_or_header(line) ==
    startswith(line, <<"+">>) \/ strip(line) = <<>> \/ startswith(line, HUNK_MARK)

\* line.startswith('+') or not line.strip() (line 105)
added_or_blank(line) == startswith(line, <<"+">>) \/ strip(line) = <<>>

\* A variant of code_to_add: the added lines keep their marker.
code_to_add_marked(diff_lines) ==
    SelectSeq(diff_lines, LAMBDA line : startswith(line, <<"+">>))

\* [line[1:] for line in diff_lines if line.startswith('+')] (line 106)
code_to_add(diff_lines) ==
    LET F[k \in 0..Len(diff_lines)] ==
            IF k = 0 THEN <<>>
            ELSE IF startswith(diff_lines[k], <<"+">>)
                 THEN Append(F[k - 1], Tail(diff_lines[k]))
                 ELSE F[k - 1]
    IN  F[Len(diff_lines)]

\* The function with what it prints: result is the returned text or None,
\* error the failure it reported.
apply_diff_run(source_code, diff_content) ==
    LET source_lines == splitlines(source_code)
        diff_lines == splitlines(diff_content)
    IN  IF diff_lines = <<>> THEN [result |-> Some(source_code), error |-> NoError]
        ELSE IF ~startswith(diff_lines[1], HUNK_MARK)
        THEN IF \A k \in 1..Len(diff_lines) : added_or_blank(diff_lines[k])
             THEN [result |-> Some(join(source_lines \o code_to_add(diff_lines))),
                   error |-> NoError]
             ELSE [result |-> None,
                   error |-> [kind |-> "UnrecognizedDiffFormat", header |-> diff_lines[1]]]
        ELSE LET st == hunk_loop(source_lines,
                                 [result_lines |-> <<>>, source_pointer |-> 0,
                                  last_source_line_processed |-> 0, error |-> NoError],
                                 hunks_of(diff_lines))
             IN  IF st.error # NoError THEN [result |-> None, error |-> st.error]
                 ELSE [result |-> Some(join(copy_tail(source_lines, st))),
                       error |-> NoError]

\* The state of the function when it leaves the loop over the hunks of a
\* diff in hunk form (lines 113-178): the lines appended so far, the pointers
\* and the failure, if any
hunk_walk(source_code, diff_content) ==
    hunk_loop(splitlines(source_code),
              [result_lines |-> <<>>, source_pointer |-> 0,
               last_source_line_processed |-> 0, error |-> NoError],
              hunks_of(splitlines(diff_content)))

\* A variant of apply_single_diff_robust: on a mismatch the lines appended
\* so far are returned.
apply_single_diff_partial(source_code, diff_content) ==
    LET run == apply_diff_run(source_code, diff_content)
    IN  IF run.error.kind \in {"ContextMismatch", "DeletionMismatch"}
        THEN Some(join(hunk_walk(source_code, diff_content).result_lines))
        ELSE run.result

\* A variant of apply_single_diff_robust: for a diff without lines the
\* source lines are joined anew.
apply_single_diff_rejoined(source_code, diff_content) ==
    IF splitlines(diff_content) = <<>> THEN Some(join(splitlines(source_code)))
    ELSE apply_diff_run(source_code, diff_content).result

\* apply_single_diff_robust: the new text, or None
apply_single_diff_robust(source_code, diff_content) ==
    apply_diff_run(source_code, diff_content).result

-----------------------------------------------------------------------------
(* The inputs: logs as the recorder writes them, and texts and diffs for    *)
(* apply_all_diffs called on its own                                        *)

MaxBlank == 2     \* blank lines at the head of a recorded snapshot
MaxDiffs == 2     \* diff blocks of a log, or of a list given to the driver
MaxOps == 2       \* lines of a generated hunk body
MaxAnchor == 3    \* old start of a generated hunk header
MaxAppend == 2    \* lines of a generated header-less block
MaxLimit == 4     \* bytes a limited output file takes

DigitChar(n) ==
    CASE n = 0 -> "0" [] n = 1 -> "1" [] n = 2 -> "2" [] n = 3 -> "3"
      [] n = 4 -> "4" [] n = 5 -> "5" [] n = 6 -> "6" [] n = 7 -> "7"
      [] n = 8 -> "8" [] n = 9 -> "9"

\* The hunk header "@@ -n,1 +n,1 @@"
Header(n) ==
    <<"@", "@", " ", "-", DigitChar(n), ",", "1", " ", "+", DigitChar(n),
      ",", "1", " ", "@", "@">>

\* The sequences over S of a length from lo to hi
SeqsOf(S, lo, hi) == UNION {[1..n -> S] : n \in lo..hi}

\* The texts a\nb\nc, x\ny, a\nB and the empty text, and results
Text_abc == <<"a", NL, "b", NL, "c">>
Text_xy == <<"x", NL, "y">>
Text_aB == <<"a", NL, "B">>
Text_aBc == <<"a", NL, "B", NL, "c">>
Text_xyz == <<"x", NL, "y", NL, "z">>
Snapshots == {Text_abc, Text_xy, Text_aB, <<>>}
\* a, a form feed, b\nc: three lines for str.splitlines()
Text_afbc == <<"a", "\f", "b", NL, "c">>
\* a\n and e with an acute accent (U+00E9), two bytes in UTF-8
Text_aAcute == <<"a", NL, Chr(233)>>

\* Scenario A of the specification: @@ -2,1 +2,1 @@ / b/-b/+B
Diff_A == join(<<Header(2), <<" ", "b">>, <<"-", "b">>, <<"+", "B">>>>)
\* the replacement of line 2 alone: @@ -2,1 +2,1 @@ /-b/+B
Diff_Replace == join(<<Header(2), <<"-", "b">>, <<"+", "B">>>>)
\* Scenario B: the header-less block +z
Diff_Append == <<"+", "z">>
\* Scenario C: a context line b at line 2
Diff_Context == join(<<Header(2), <<" ", "b">>>>)
\* an insertion after line 1: @@ -1,1 +1,1 @@ / a/+n
Diff_Insert == join(<<Header(1), <<" ", "a">>, <<"+", "n">>>>)
\* the removal of line 3 when it is b: @@ -3,1 +3,1 @@ /-b
Diff_Remove3 == join(<<Header(3), <<"-", "b">>>>)
\* the removal of both lines of x\ny: @@ -1,1 +1,1 @@ /-x/-y
Diff_RemoveAll == join(<<Header(1), <<"-", "x">>, <<"-", "y">>>>)
DiffCatalogue ==
    {Diff_A, Diff_Replace, Diff_Append, Diff_Context, Diff_Insert, Diff_Remove3,
     Diff_RemoveAll}

\* The line ends a log file is written with
LF == <<NL>>
CRLF == <<"\r", NL>>
CR == <<"\r">>

\* What was recorded: whether and how the initial-version marker was
\* written ("normal": on a line of its own; "bare": last in the log, with no
\* line end; "none"), the snapshot (blanks blank lines, then body), the
\* diff blocks in order, the line end of the file (eol) and the white space
\* written after "--- previous version" (pad).  A snapshot that begins with
\* blank lines comes with at most one diff block, and so does a log with
\* other line ends than \n or with white space after a header line.  One
\* snapshot holds a character of more than one byte.
Recordings ==
    {[marker |-> "normal", blanks |-> 0, body |-> b, diffs |-> ds, final_nl |-> nl,
      eol |-> LF, pad |-> <<>>] :
        b \in Snapshots, ds \in SeqsOf(DiffCatalogue, 0, MaxDiffs), nl \in BOOLEAN}
    \cup {[marker |-> "normal", blanks |-> k, body |-> b, diffs |-> ds, final_nl |-> nl,
           eol |-> LF, pad |-> <<>>] :
        k \in 1..MaxBlank, b \in Snapshots,
        ds \in SeqsOf(DiffCatalogue, 0, 1), nl \in BOOLEAN}
    \cup {[marker |-> "none", blanks |-> 0, body |-> <<>>, diffs |-> ds, final_nl |-> FALSE,
           eol |-> LF, pad |-> <<>>] :
        ds \in SeqsOf(DiffCatalogue, 0, MaxDiffs)}
    \cup {[marker |-> "bare", blanks |-> 0, body |-> <<>>, diffs |-> <<>>, final_nl |-> FALSE,
           eol |-> LF, pad |-> <<>>]}
    \cup {[marker |-> "normal", blanks |-> 0, body |-> b, diffs |-> ds, final_nl |-> nl,
           eol |-> e, pad |-> <<>>] :
        b \in {Text_abc, Text_afbc}, ds \in SeqsOf(DiffCatalogue, 0, 1),
        nl \in BOOLEAN, e \in {CRLF, CR}}
    \cup {[marker |-> "normal", blanks |-> 0, body |-> b, diffs |-> ds, final_nl |-> FALSE,
           eol |-> LF, pad |-> <<"\t">>] :
        b \in {Text_abc, Text_afbc}, ds \in SeqsOf(DiffCatalogue, 1, 1)}
    \cup {[marker |-> "normal", blanks |-> 0, body |-> Text_aAcute, diffs |-> <<>>,
           final_nl |-> FALSE, eol |-> LF, pad |-> <<>>]}
NoRecording ==
    [marker |-> "none", blanks |-> 0, body |-> <<>>, diffs |-> <<>>, final_nl |-> FALSE,
     eol |-> LF, pad |-> <<>>]

\* The recorded snapshot: its blank lines, then its body
RecordedSnapshot(r) == [k \in 1..r.blanks |-> NL] \o r.body

\* One recorded change: the "Code changes" marker, the two header lines and
\* the diff body
RECURSIVE ChangeRecords(_, _)
ChangeRecords(ds, pad) ==
    IF ds = <<>> THEN <<>>
    ELSE <<NL, FOX, "=", "=", "=", " ", "C", "o", "d", "e", " ",
           "c", "h", "a", "n", "g", "e", "s", " ", "a", "t", " ", "t", " ",
           "=", "=", "=", NL>>
         \o PREVIOUS_VERSION \o pad \o <<NL>> \o CURRENT_VERSION \o <<NL>>
         \o Head(ds) \o ChangeRecords(Tail(ds), pad)

\* The text s with each of its \n written as the line end eol
WithLineEnds(s, eol) ==
    LET w == Len(eol)
        \* Len(eol) places for each character, the places left empty are ""
        slots == [k \in 1..(w * Len(s)) |->
                    LET c == s[((k - 1) \div w) + 1]
                        j == ((k - 1) % w) + 1
                    IN  IF c = NL THEN eol[j] ELSE IF j = 1 THEN c ELSE ""]
        Filled(c) == c # ""
    IN  SelectSeq(slots, Filled)

\* The text of the log file of a recording
LogOf(r) ==
    LET text == (IF r.marker = "none" THEN <<>>
                 ELSE INITIAL_PREFIX \o <<"f", " ", "=", "=", "=">>
                      \o (IF r.marker = "normal"
                          THEN <<NL>> \o RecordedSnapshot(r) ELSE <<>>))
                \o ChangeRecords(r.diffs, r.pad)
                \o (IF r.final_nl THEN <<NL>> ELSE <<>>)
    IN  IF r.eol = LF THEN text ELSE WithLineEnds(text, r.eol)

\* A log file that open() and read() give the text of, and one they raise
\* an exception for (a directory, bytes that are not UTF-8)
LogFile(text) == [isNone |-> FALSE, readable |-> TRUE, val |-> text]
Unreadable == [isNone |-> FALSE, readable |-> FALSE]

\* f.read() of a file opened in text mode (line 239): each \r\n and each
\* other \r of the file is read as \n
read_text(s) ==
    LET \* what is read for each character of the file: "" (nothing) for the
        \* \r of a \r\n
        chars == [k \in 1..Len(s) |->
                    IF s[k] # "\r" THEN s[k]
                    ELSE IF k < Len(s) /\ s[k + 1] = NL THEN "" ELSE NL]
        Read(c) == c # ""
    IN  SelectSeq(chars, Read)

\* The text an output file held before the run
OldOutput == <<"o", "l", "d">>

\* The output path as the file system takes it.  output is
\*   "openable"          its directory is there or os.makedirs makes it, and
\*                       open() opens the file, which takes limit bytes
\*                       (Unlimited: any number; a limit on the size of
\*                       files, the space left);
\*   "no_directory"      its directory is not there and os.makedirs raises
\*                       OSError (no permission; missing/../out.txt, where
\*                       the file itself can be there);
\*   "invalid_directory" its directory part holds a NUL character:
\*                       os.path.exists is False for it and os.makedirs
\*                       raises ValueError;
\*   "not_openable"      open() raises OSError (a directory, no permission);
\*   "invalid_name"      its last part holds a NUL character: open() raises
\*                       ValueError;
\* and output_is_log says that it names the log file.
Unlimited == -1
Env(output, limit, output_is_log) ==
    [output |-> output, limit |-> limit, output_is_log |-> output_is_log]
Writable == Env("openable", Unlimited, FALSE)
InvalidPaths == {"invalid_directory", "invalid_name"}
Envs ==
    {Env("openable", l, a) : l \in {Unlimited} \cup 0..MaxLimit, a \in BOOLEAN}
    \cup {Env(k, Unlimited, a) : k \in {"no_directory", "not_openable"},
                                 a \in BOOLEAN}
    \cup {Env(k, Unlimited, FALSE) : k \in InvalidPaths}

\* The recordings that are run with every output path of Envs, those of at
\* most one diff block whose snapshot begins with no blank line; the others
\* are run with a path that is writable and not the log
FaultRecordings == {r \in Recordings : r.blanks = 0 /\ Len(r.diffs) <= 1}

-----------------------------------------------------------------------------
(* The state *)

VARIABLES
    pc,            \* "main", "loop" (in apply_all_diffs), "returned",
                   \* "opened" (the output file is open), "done" (main is
                   \* left)
    rec,           \* what was recorded in the log (not read by the program)
    env,           \* the output path as the file system takes it
    log_file,      \* the log file: LogFile(its text), Unreadable, or None
                   \* when there is no such file
    output_file,   \* the output file's content, None when there is none
    output_before, \* output_file as the run found it
    initial_code,  \* parse_log_file's initial code
    diffs,         \* parse_log_file's diff list
    current_code,  \* apply_all_diffs' current_code
    i,             \* the number of diffs apply_all_diffs is past
    final_code,    \* what apply_all_diffs returned
    failed_patch,  \* the patch number of the failure message, 0 when none
    applied,       \* the patch numbers apply_single_diff_robust was called for
    last_call,     \* the last call of apply_single_diff_robust and its result
    writes,        \* the texts written to the output file, in order
    outcome        \* how main ended, "running" until then

vars == <<pc, rec, env, log_file, output_file, output_before, initial_code, diffs,
          current_code, i, final_code, failed_patch, applied, last_call,
          writes, outcome>>

NoCall == [called |-> FALSE]

\* main(log_file_path, output_file_path) is called
Init ==
    /\ pc = "main"
    /\ rec \in Recordings
    /\ env \in (IF rec \in FaultRecordings THEN Envs ELSE {Writable})
    /\ log_file \in {LogFile(LogOf(rec))}
                    \cup (IF rec = NoRecording THEN {None, Unreadable} ELSE {})
    /\ env.output_is_log => log_file # Unreadable
    /\ output_file \in
          (IF env.output_is_log
           THEN {IF log_file.isNone THEN None ELSE Some(log_file.val)}
           ELSE IF env.output \in InvalidPaths THEN {None}
           ELSE {None, Some(OldOutput)})
    /\ output_before = output_file
    /\ initial_code = <<>>
    /\ diffs = <<>>
    /\ current_code = <<>>
    /\ i = 0
    /\ final_code = None
    /\ failed_patch = 0
    /\ applied = <<>>
    /\ last_call = NoCall
    /\ writes = <<>>
    /\ outcome = "running"

-----------------------------------------------------------------------------
(* main, up to the call of apply_all_diffs *)

\* Lines 231-233: there is no log file
Main_LogNotFound ==
    /\ pc = "main"
    /\ log_file.isNone
    /\ pc' = "done"
    /\ outcome' = "LogNotFound"
    /\ UNCHANGED <<rec, env, log_file, output_file, output_before, initial_code,
                   diffs, current_code, i, final_code, failed_patch, applied,
                   last_call, writes>>

\* Lines 237-242: the log file is there and reading it raises an exception
Main_ReadFailed ==
    /\ pc = "main"
    /\ ~log_file.isNone
    /\ ~log_file.readable
    /\ pc' = "done"
    /\ outcome' = "LogUnreadable"
    /\ UNCHANGED <<rec, env, log_file, output_file, output_before, initial_code,
                   diffs, current_code, i, final_code, failed_patch, applied,
                   last_call, writes>>

\* Lines 237-253: the log is read and parse_log_file returned (None, None)
Main_ParseFailed ==
    /\ pc = "main"
    /\ ~log_file.isNone
    /\ log_file.readable
    /\ parse_log_file(read_text(log_file.val)).isNone
    /\ pc' = "done"
    /\ outcome' = "MissingInitialVersion"
    /\ UNCHANGED <<rec, env, log_file, output_file, output_before, initial_code,
                   diffs, current_code, i, final_code, failed_patch, applied,
                   last_call, writes>>

\* Lines 237-257 and 200: the log is read and parsed and apply_all_diffs
\* entered
Main_Parsed ==
    /\ pc = "main"
    /\ ~log_file.isNone
    /\ log_file.readable
    /\ LET log_content == read_text(log_file.val)
           parsed == parse_log_file(log_content)
       IN  /\ ~parsed.isNone
           /\ initial_code' = parsed.val.initial_code
           /\ diffs' = parsed.val.diffs
           /\ current_code' = parsed.val.initial_code
    /\ i' = 0
    /\ pc' = "loop"
    /\ UNCHANGED <<rec, env, log_file, output_file, output_before, final_code,
                   failed_patch, applied, last_call, writes, outcome>>

-----------------------------------------------------------------------------
(* apply_all_diffs *)

\* enumerate(diffs, 1): the patch number of the diff after i diffs
patch_number(n) == n + 1

\* A variant of failure_result: the text reached so far is returned.
failure_result_partial(current) == Some(current)

\* A variant of patch_source: every diff is applied to the initial code.
patch_source_initial(initial, current) == initial

\* The text a diff is applied to (the first argument of line 204)
patch_source(initial, current) == current

\* What the loop returns when a diff fails (line 209)
failure_result(current) == None

\* Lines 202-213, the diff applied: one pass of the loop
Apply_Ok ==
    /\ pc = "loop"
    /\ i < Len(diffs)
    /\ LET source == patch_source(initial_code, current_code)
           next_code_version == apply_single_diff_robust(source, diffs[i + 1])
       IN  /\ ~next_code_version.isNone
           /\ current_code' = next_code_version.val
           /\ last_call' = [called |-> TRUE, source |-> source,
                            diff |-> diffs[i + 1], result |-> next_code_version,
                            error |-> apply_diff_run(source, diffs[i + 1]).error]
    /\ applied' = Append(applied, patch_number(i))
    /\ i' = i + 1
    /\ UNCHANGED <<pc, rec, env, log_file, output_file, output_before, initial_code,
                   diffs, final_code, failed_patch, writes, outcome>>

\* A variant of Apply_Fail: the refused diff is skipped and the loop goes on.
Apply_Fail_Skip ==
    /\ pc = "loop"
    /\ i < Len(diffs)
    /\ apply_single_diff_robust(current_code, diffs[i + 1]).isNone
    /\ applied' = Append(applied, i + 1)
    /\ failed_patch' = i + 1
    /\ i' = i + 1
    /\ UNCHANGED <<pc, rec, env, log_file, output_file, output_before, initial_code,
                   diffs, current_code, final_code, last_call, writes, outcome>>

\* A variant of Apply_Fail: a refused diff is tried a second time before the
\* loop is left.
Apply_Fail_Retry ==
    /\ pc = "loop"
    /\ i < Len(diffs)
    /\ apply_single_diff_robust(current_code, diffs[i + 1]).isNone
    /\ last_call' = [called |-> TRUE, source |-> current_code,
                     diff |-> diffs[i + 1], result |-> None,
                     error |-> apply_diff_run(current_code, diffs[i + 1]).error]
    /\ applied' = Append(applied, i + 1)
    /\ IF Len(applied) <= i
       THEN UNCHANGED <<pc, final_code, failed_patch>>
       ELSE /\ pc' = "returned"
            /\ final_code' = None
            /\ failed_patch' = i + 1
    /\ UNCHANGED <<rec, env, log_file, output_file, output_before, initial_code,
                   diffs, current_code, i, writes, outcome>>

\* Lines 202-209, the diff refused: the loop is left with None
Apply_Fail ==
    /\ pc = "loop"
    /\ i < Len(diffs)
    /\ LET source == patch_source(initial_code, current_code)
           next_code_version == apply_single_diff_robust(source, diffs[i + 1])
       IN  /\ next_code_version.isNone
           /\ last_call' = [called |-> TRUE, source |-> source,
                            diff |-> diffs[i + 1], result |-> next_code_version,
                            error |-> apply_diff_run(source, diffs[i + 1]).error]
    /\ applied' = Append(applied, patch_number(i))
    /\ failed_patch' = patch_number(i)
    /\ final_code' = failure_result(current_code)
    /\ pc' = "returned"
    /\ UNCHANGED <<rec, env, log_file, output_file, output_before, initial_code,
                   diffs, current_code, i, writes, outcome>>

\* A variant of Return: without a diff to apply, None is returned.
Return_NothingApplied ==
    /\ pc = "loop"
    /\ i = Len(diffs)
    /\ final_code' = (IF diffs = <<>> THEN None ELSE Some(current_code))
    /\ pc' = "returned"
    /\ UNCHANGED <<rec, env, log_file, output_file, output_before, initial_code,
                   diffs, current_code, i, failed_patch, applied, last_call,
                   writes, outcome>>

\* Line 215: every diff is applied
Return ==
    /\ pc = "loop"
    /\ i = Len(diffs)
    /\ final_code' = Some(current_code)
    /\ pc' = "returned"
    /\ UNCHANGED <<rec, env, log_file, output_file, output_before, initial_code,
                   diffs, current_code, i, failed_patch, applied, last_call,
                   writes, outcome>>

-----------------------------------------------------------------------------
(* main, after apply_all_diffs *)

\* The text main writes (line 273)
written_text(final) == final.val

\* The number of bytes of the character c in UTF-8 (encoding='utf-8', line
\* 272): one up to U+007F, two up to U+07FF, three up to U+FFFF, else four
Utf8Len(c) ==
    IF c = FOX THEN 4
    ELSE IF Len(c) = 1 THEN 1
    ELSE IF \E n \in 0..127 : c = Chr(n) THEN 1
    ELSE IF \E n \in 128..2047 : c = Chr(n) THEN 2
    ELSE IF \E n \in 2048..65535 : c = Chr(n) THEN 3
    ELSE 4

\* The first n bytes of the character c, n less than its number of bytes:
\* what a file ends with when it is cut inside c
PartialChar(c, n) == c \o "/" \o ToString(n)

\* The content of a file that holds the first limit bytes of text in UTF-8:
\* the characters that fit and, when the cut is inside one, its first bytes
RECURSIVE first_bytes(_, _)
first_bytes(text, limit) ==
    IF text = <<>> \/ limit = 0 THEN <<>>
    ELSE LET n == Utf8Len(Head(text))
         IN  IF n <= limit
             THEN <<Head(text)>> \o first_bytes(Tail(text), limit - n)
             ELSE <<PartialChar(Head(text), limit)>>

\* The output file takes the whole of text
Takes(text) == env.limit = Unlimited \/ first_bytes(text, env.limit) = text

\* The log file once the output file holds content: the same file when the
\* output path names the log.  A content cut inside a character is not
\* UTF-8, and reading it raises.
LogAfter(content, utf8) ==
    IF env.output_is_log
    THEN [isNone |-> FALSE, readable |-> utf8, val |-> content]
    ELSE log_file

\* Lines 260-268: the directory of the output path is not there, and
\* os.makedirs raises OSError
Main_MakedirsFailed ==
    /\ pc = "returned"
    /\ ~final_code.isNone
    /\ env.output = "no_directory"
    /\ outcome' = "OutputDirFailed"
    /\ pc' = "done"
    /\ UNCHANGED <<rec, env, log_file, output_file, output_before, initial_code,
                   diffs, current_code, i, final_code, failed_patch, applied,
                   last_call, writes>>

\* Lines 260-265: os.makedirs raises ValueError, which except OSError does
\* not catch: main is left by the exception
Main_MakedirsRaised ==
    /\ pc = "returned"
    /\ ~final_code.isNone
    /\ env.output = "invalid_directory"
    /\ outcome' = "Raised"
    /\ pc' = "done"
    /\ UNCHANGED <<rec, env, log_file, output_file, output_before, initial_code,
                   diffs, current_code, i, final_code, failed_patch, applied,
                   last_call, writes>>

\* Lines 260-272 and 275-277: open(output_file_path, 'w') raises IOError
Main_OpenFailed ==
    /\ pc = "returned"
    /\ ~final_code.isNone
    /\ env.output = "not_openable"
    /\ outcome' = "WriteFailed"
    /\ pc' = "done"
    /\ UNCHANGED <<rec, env, log_file, output_file, output_before, initial_code,
                   diffs, current_code, i, final_code, failed_patch, applied,
                   last_call, writes>>

\* Lines 260-272: open(output_file_path, 'w') raises ValueError, which
\* except IOError does not catch: main is left by the exception
Main_OpenRaised ==
    /\ pc = "returned"
    /\ ~final_code.isNone
    /\ env.output = "invalid_name"
    /\ outcome' = "Raised"
    /\ pc' = "done"
    /\ UNCHANGED <<rec, env, log_file, output_file, output_before, initial_code,
                   diffs, current_code, i, final_code, failed_patch, applied,
                   last_call, writes>>

\* Lines 260-272: open(output_file_path, 'w') creates the output file, or
\* empties the one there is, the log file when the path names it
Main_Open ==
    /\ pc = "returned"
    /\ ~final_code.isNone
    /\ env.output = "openable"
    /\ output_file' = Some(<<>>)
    /\ log_file' = LogAfter(<<>>, TRUE)
    /\ pc' = "opened"
    /\ UNCHANGED <<rec, env, output_before, initial_code, diffs, current_code,
                   i, final_code, failed_patch, applied, last_call, writes,
                   outcome>>

\* Lines 273-274: the final code is written to the output file
Main_Write ==
    /\ pc = "opened"
    /\ Takes(written_text(final_code))
    /\ output_file' = Some(written_text(final_code))
    /\ log_file' = LogAfter(written_text(final_code), TRUE)
    /\ writes' = Append(writes, written_text(final_code))
    /\ outcome' = "Restored"
    /\ pc' = "done"
    /\ UNCHANGED <<rec, env, output_before, initial_code, diffs, current_code,
                   i, final_code, failed_patch, applied, last_call>>

\* Lines 273-277: the file does not take the whole text, and f.write, or
\* the close of the file, raises IOError with the first bytes written
Main_WriteFailed ==
    /\ pc = "opened"
    /\ ~Takes(written_text(final_code))
    /\ LET text == written_text(final_code)
           content == first_bytes(text, env.limit)
       IN  /\ output_file' = Some(content)
           /\ log_file' = LogAfter(content,
                                   content = SubSeq(text, 1, Len(content)))
    /\ writes' = Append(writes, written_text(final_code))
    /\ outcome' = "WriteFailed"
    /\ pc' = "done"
    /\ UNCHANGED <<rec, env, output_before, initial_code, diffs, current_code,
                   i, final_code, failed_patch, applied, last_call>>

\* A variant of Main_Failed: an empty final code counts as a failure too.
Main_Failed_Falsy ==
    /\ pc = "returned"
    /\ (final_code.isNone \/ final_code.val = <<>>)
    /\ outcome' = "PatchFailed"
    /\ pc' = "done"
    /\ UNCHANGED <<rec, env, log_file, output_file, output_before, initial_code,
                   diffs, current_code, i, final_code, failed_patch, applied,
                   last_call, writes>>

\* Lines 278-280: apply_all_diffs returned None
Main_Failed ==
    /\ pc = "returned"
    /\ final_code.isNone
    /\ outcome' = "PatchFailed"
    /\ pc' = "done"
    /\ UNCHANGED <<rec, env, log_file, output_file, output_before, initial_code,
                   diffs, current_code, i, final_code, failed_patch, applied,
                   last_call, writes>>

Next ==
    \/ Main_LogNotFound
    \/ Main_ReadFailed
    \/ Main_ParseFailed
    \/ Main_Parsed
    \/ Apply_Ok
    \/ Apply_Fail
    \/ Return
    \/ Main_MakedirsFailed
    \/ Main_MakedirsRaised
    \/ Main_OpenFailed
    \/ Main_OpenRaised
    \/ Main_Open
    \/ Main_Write
    \/ Main_WriteFailed
    \/ Main_Failed

Spec == Init /\ [][Next]_vars

-----------------------------------------------------------------------------
(* apply_all_diffs called on its own, on texts and diffs of any shape *)

\* The lines of generated hunk bodies: context, removed and added lines,
\* among them a line that differs from b by its case and one that differs by
\* a trailing space, a line with an unknown marker and an empty line
OpLines ==
    {<<" ", "a">>, <<" ", "b">>, <<"-", "b">>, <<"+", "B">>, <<" ", "B">>,
     <<"-", "b", " ">>, <<" ", "c">>, <<"\\", "n">>, <<>>}

\* The lines of generated header-less blocks: added lines, an added empty
\* line, an empty line, a line of white space and a line that is neither
AppendLines ==
    {<<"+", "z">>, <<"+", "w">>, <<"+">>, <<>>, <<" ">>, <<"q">>}

\* A diff of one hunk: a header and a body of up to MaxOps lines
OneHunkDiffs ==
    {join(<<Header(n)>> \o body) :
        n \in 0..MaxAnchor, body \in SeqsOf(OpLines, 0, MaxOps)}

\* A diff of two hunks of one line each, in any order of their anchors
TwoHunkDiffs ==
    {join(<<Header(m), x, Header(n), y>>) :
        m \in 1..MaxAnchor, n \in 1..MaxAnchor,
        x \in {<<" ", "a">>, <<" ", "b">>, <<"-", "b">>, <<"+", "B">>},
        y \in {<<" ", "a">>, <<" ", "b">>, <<" ", "c">>, <<"+", "B">>}}

\* A header-less block of up to MaxAppend + 1 lines, with or without a final
\* line end
HeaderlessDiffs ==
    {join(ls) \o e : ls \in SeqsOf(AppendLines, 0, MaxAppend + 1),
                     e \in {<<>>, <<NL>>}}

\* Diffs whose header re.match refuses, and a header after a blank line,
\* followed by a context line or by an added line
OddDiffs ==
    {<<"@", "@", " ", "x">>,
     join(<<<<"@", "@", " ", "-", "2", " ", "+", "2", " ", "@", "@">>, <<"-", "b">>>>),
     join(<<Header(1), <<" ", "a">>, <<"@", "@">>, <<" ", "b">>>>),
     join(<<<<>>, Header(1), <<" ", "a">>>>),
     join(<<<<>>, Header(1), <<"+", "B">>>>)}

\* Diffs with white space other than the space, with a header whose old
\* start is the digit two of another script (U+0662) and with line ends other
\* than \n: the block +z and a line of one tab; @@ -(U+0662) +2 @@ / -b;
\* the removal of c at line 2; the block +z\r\n+w; the hunk of scenario A's
\* replacement written with form feeds
WideDiffs ==
    {<<"+", "z", NL, "\t">>,
     <<"\t">>,
     <<"+", "z", NL, Chr(160), "q">>,
     join(<<<<"@", "@", " ", "-", Chr(1634), " ", "+", "2", " ", "@", "@">>, <<"-", "b">>>>),
     join(<<<<"@", "@", "\t", "-", "2", " ", "+", "2", " ", "@", "@">>, <<"-", "b">>>>),
     join(<<Header(2), <<"-", "c">>>>),
     <<"+", "z", "\r", NL, "+", "w">>,
     Header(2) \o <<"\f", "-", "b", "\f", "+", "B">>}

\* The header @@ -0...01 +1 @@ or @@ -1...1 +1 @@ with an old start of n
\* digits, the last of them 1 and those before it all the digit first
LongHeader(n, first) ==
    <<"@", "@", " ", "-">> \o [k \in 1..n |-> IF k = n THEN "1" ELSE first]
        \o <<" ", "+", "1", " ", "@", "@">>

\* Hunks whose old start is written with as many digits as int() takes, and
\* with one more: 1 with zeros before it, followed by an added line or by
\* the removal of a; and with ones only, followed by an added line
LongDiffs ==
    {join(<<LongHeader(n, "0"), body>>) :
        n \in {INT_MAX_STR_DIGITS, INT_MAX_STR_DIGITS + 1},
        body \in {<<"+", "B">>, <<"-", "a">>}}
    \cup {join(<<LongHeader(INT_MAX_STR_DIGITS + 1, "1"), <<"+", "B">>>>)}

\* Sources with line boundaries other than \n: a form feed, \r\n, U+2028
WideSources ==
    {Text_afbc, <<"a", "\r", NL, "b", NL, "c">>, <<"a", Chr(8232), "b">>,
     Text_abc, Text_xy}

DriverSources ==
    Snapshots \cup {Text_abc \o <<NL>>, <<"a", NL, "b", " ">>, <<"a">>}

\* The lists that are ds with one diff of an empty body put in at any place
WithEmptyDiff(ds) ==
    {SubSeq(ds, 1, p) \o <<<<>>>> \o SubSeq(ds, p + 1, Len(ds)) : p \in 0..Len(ds)}

DriverInputs ==
    {[initial_code |-> src, diffs |-> ds] :
        src \in Snapshots, ds \in SeqsOf(DiffCatalogue, 0, MaxDiffs + 1)}
    \cup {[initial_code |-> src, diffs |-> <<d>>] :
        src \in DriverSources,
        d \in OneHunkDiffs \cup TwoHunkDiffs \cup HeaderlessDiffs \cup OddDiffs}
    \cup {[initial_code |-> src, diffs |-> ds] :
        src \in Snapshots \cup {Text_abc \o <<NL>>},
        ds \in UNION {WithEmptyDiff(d) : d \in SeqsOf(DiffCatalogue, 0, MaxDiffs)}}
    \cup {[initial_code |-> src, diffs |-> <<d>>] :
        src \in WideSources,
        d \in WideDiffs \cup {Diff_Replace, Diff_Append, Diff_Context, <<>>}}
    \cup {[initial_code |-> src, diffs |-> <<d>>] :
        src \in {Text_abc, <<>>}, d \in LongDiffs}

\* apply_all_diffs(initial_code, diffs) is called (line 200)
InitDriver ==
    /\ pc = "loop"
    /\ rec = NoRecording
    /\ env = Writable
    /\ log_file = None
    /\ output_file = None
    /\ output_before = None
    /\ \E in \in DriverInputs :
          /\ initial_code = in.initial_code
          /\ diffs = in.diffs
          /\ current_code = in.initial_code
    /\ i = 0
    /\ final_code = None
    /\ failed_patch = 0
    /\ applied = <<>>
    /\ last_call = NoCall
    /\ writes = <<>>
    /\ outcome = "running"

NextDriver ==
    \/ Apply_Ok
    \/ Apply_Fail
    \/ Return

SpecDriver == InitDriver /\ [][NextDriver]_vars

\* The runs whose end is checked: apply_all_diffs on a\nb\nc or x\ny with a
\* list of up to MaxDiffs + 1 diffs, each the replacement of line 2, the
\* insertion after line 1 or the context line b at line 2
FairInputs ==
    {[initial_code |-> src, diffs |-> ds] :
        src \in {Text_abc, Text_xy},
        ds \in SeqsOf({Diff_Replace, Diff_Insert, Diff_Context}, 0, MaxDiffs + 1)}

InitDriverFair ==
    /\ InitDriver
    /\ [initial_code |-> initial_code, diffs |-> diffs] \in FairInputs

\* A pass of the loop can be taken: a diff is left, and the applicator
\* either returns a text for it (Apply_Ok) or None (Apply_Fail).  This is
\* ENABLED <<Apply_Ok \/ Apply_Fail>>_vars.
PassEnabled == pc = "loop" /\ i < Len(diffs)

\* The loop of lines 202-213 is sequential code over a finite list, and each
\* of its passes ends: a step that can be taken is taken.  The fairness is
\* weak fairness of the return and of the pass, the latter written out with
\* its enabling condition.
SpecDriverFair ==
    /\ InitDriverFair
    /\ [][NextDriver]_vars
    /\ WF_vars(Return)
    /\ ([]<>~PassEnabled \/ []<><<Apply_Ok \/ Apply_Fail>>_vars)

-----------------------------------------------------------------------------
(* Reference notions the properties are stated with *)

\* The text after the first n diffs of ds applied in order to code, None
\* when one of them is refused
RECURSIVE AppliedInOrder(_, _, _)
AppliedInOrder(code, ds, n) ==
    IF n = 0 THEN Some(code)
    ELSE LET before == AppliedInOrder(code, ds, n - 1)
         IN  IF before.isNone THEN None
             ELSE apply_single_diff_robust(before.val, ds[n])

\* The 1-based index of the first diff of ds that is refused, 0 when none is
FirstFailing(code, ds) ==
    LET bad == {k \in 1..Len(ds) : AppliedInOrder(code, ds, k).isNone}
    IN  IF bad = {} THEN 0 ELSE Min(bad)

\* A diff in hunk form: it has a line and its first line is a hunk header
HunkForm(diff_content) ==
    /\ splitlines(diff_content) # <<>>
    /\ startswith(splitlines(diff_content)[1], HUNK_MARK)

\* A hunk line that consumes a source line: a context or a removed line
Consumes(line) == line # <<>> /\ Head(line) \in {" ", "-"}

\* The number of source lines the first n lines of a hunk body consume
Consumed(body, n) == Cardinality({m \in 1..n : Consumes(body[m])})

\* The ends of main at which the final code is there and the file system
\* refused the output: OSError of os.makedirs (lines 266-268), IOError of
\* open or write (lines 275-277), an exception main does not catch
OutputFailures == {"OutputDirFailed", "WriteFailed", "Raised"}

\* The file system takes the output: the output path can be opened for
\* writing, and the file takes the whole final code
OutputAccepted ==
    /\ ~final_code.isNone
    /\ env.output = "openable"
    /\ Takes(written_text(final_code))

\* The scenario A recording: snapshot a\nb\nc and the diff of scenario A
IsScenario(r, body, ds) ==
    r.marker = "normal" /\ r.blanks = 0 /\ r.body = body /\ r.diffs = ds

-----------------------------------------------------------------------------
(* C1 *)

\* C1 as claimed: scenario A (snapshot a\nb\nc, one hunk @@ -2,1 +2,1 @@
\* with the lines " b", "-b", "+B") ends in success with the text a\nB\nc.
C1_ScenarioA_Succeeds ==
    (pc = "done" /\ IsScenario(rec, Text_abc, <<Diff_A>>))
        => (outcome = "Restored" /\ output_file = Some(Text_aBc))

\* C1, amended: scenario A is refused, because the context line " b" consumes
\* line 2 and the removed line "-b" then meets line 3, c: patch 1 fails with
\* a deletion mismatch at line 3 and nothing is written.  With the lines
\* "-b", "+B" alone the same hunk succeeds and the final text is a\nB\nc,
\* which is what the output file holds unless the file system refuses it.
C1_ScenarioA_Refused ==
    /\ (pc = "done" /\ IsScenario(rec, Text_abc, <<Diff_A>>))
          => /\ outcome = "PatchFailed"
             /\ failed_patch = 1
             /\ last_call.error =
                  [kind |-> "DeletionMismatch", line |-> 3, expected |-> <<"b">>,
                   actual |-> [eof |-> FALSE, text |-> <<"c">>]]
             /\ writes = <<>>
    /\ (pc = "done" /\ IsScenario(rec, Text_abc, <<Diff_Replace>>))
          => /\ final_code = Some(Text_aBc)
             /\ outcome \in {"Restored"} \cup OutputFailures
             /\ outcome = "Restored" => output_file = Some(Text_aBc)
             /\ OutputAccepted => outcome = "Restored"

C1_Witness ==
    /\ pc = "done"
    /\ IsScenario(rec, Text_abc, <<Diff_A>>)
    /\ applied = <<1>>
    /\ outcome = "PatchFailed"

-----------------------------------------------------------------------------
(* C2 *)

\* Every context and removed line of every hunk equals the source line at
\* the cursor that sequential consumption reaches (the hunk's start plus the
\* lines the hunk consumed before), and that cursor is inside the source.
AllConsumedMatch(source_lines, hunks) ==
    \A k \in 1..Len(hunks) :
        /\ ~old_start_of(hunks[k].header).isNone
        /\ \A j \in 1..Len(hunks[k].body) :
              Consumes(hunks[k].body[j]) =>
                  LET cursor == start_pointer(old_start_of(hunks[k].header).val)
                                    + Consumed(hunks[k].body, j - 1)
                  IN  /\ cursor < Len(source_lines)
                      /\ source_lines[cursor + 1] = Tail(hunks[k].body[j])

\* C2: apply_single_diff_robust returns a text for a diff in hunk form only
\* if every context and removed line matched its source line exactly; one
\* mismatch, or a cursor at or past the end, and it returns None.
C2_ExactMatchOrFailure ==
    (last_call.called /\ HunkForm(last_call.diff) /\ ~last_call.result.isNone)
        => AllConsumedMatch(splitlines(last_call.source),
                            hunks_of(splitlines(last_call.diff)))

\* A call that returned a text after two lines of a hunk were checked
C2_Witness ==
    /\ last_call.called
    /\ HunkForm(last_call.diff)
    /\ ~last_call.result.isNone
    /\ \E k \in 1..Len(hunks_of(splitlines(last_call.diff))) :
          LET body == hunks_of(splitlines(last_call.diff))[k].body
          IN  Consumed(body, Len(body)) >= 2

-----------------------------------------------------------------------------
(* C3 *)

\* C3: when diff k is the first that fails, no diff after k is ever applied,
\* and apply_all_diffs returns None with the failure message naming patch k
\* after calling the applicator for the patches 1..k, each once.
C3_AbortAtFirstFailure ==
    LET k == FirstFailing(initial_code, diffs)
    IN  k > 0 =>
          /\ \A n \in 1..Len(applied) : applied[n] <= k
          /\ pc = "returned" =>
                /\ final_code = None
                /\ failed_patch = k
                /\ applied = [n \in 1..k |-> n]

\* The driver has returned on a failure of the second of three diffs
C3_Witness ==
    /\ pc = "returned"
    /\ Len(diffs) = 3
    /\ FirstFailing(initial_code, diffs) = 2
    /\ current_code # initial_code
    /\ final_code = None

-----------------------------------------------------------------------------
(* C4 *)

\* C4: a run writes at most once.  A run that ends in success has written
\* the final text, once, and the output file holds it.  A run whose log has
\* no initial version, or one of whose diffs fails, ends in failure and has
\* written nothing: the output file holds what it held before the run.
C4_OneWriteOrNone ==
    /\ Len(writes) <= 1
    /\ (pc = "done" /\ outcome = "Restored") =>
          /\ ~AppliedInOrder(initial_code, diffs, Len(diffs)).isNone
          /\ writes = <<AppliedInOrder(initial_code, diffs, Len(diffs)).val>>
          /\ output_file = Some(writes[1])
    /\ (pc = "done" /\ outcome \in {"MissingInitialVersion", "PatchFailed"}) =>
          (writes = <<>> /\ output_file = output_before)
    /\ (rec.marker = "none"
          \/ (pc # "main" /\ FirstFailing(initial_code, diffs) > 0)) =>
          /\ writes = <<>>
          /\ output_file = output_before
          /\ outcome \in {"running", "LogNotFound", "LogUnreadable",
                          "MissingInitialVersion", "PatchFailed"}
          /\ pc \notin {"opened"}

\* A run over an existing output file has failed at its second diff
C4_Witness ==
    /\ pc = "done"
    /\ outcome = "PatchFailed"
    /\ failed_patch = 2
    /\ current_code # initial_code
    /\ output_before = Some(OldOutput)
    /\ output_file = Some(OldOutput)

-----------------------------------------------------------------------------
(* C5 *)

\* C5: after i diffs the working text is the initial code with the diffs
\* 1..i applied in log order, each call of the applicator is given the
\* output of the diff before it, and the text returned is that of all diffs.
C5_TextThreaded ==
    /\ pc = "loop" => Some(current_code) = AppliedInOrder(initial_code, diffs, i)
    /\ (pc \in {"loop", "returned"} /\ last_call.called) =>
          Some(last_call.source)
              = AppliedInOrder(initial_code, diffs, applied[Len(applied)] - 1)
    /\ (pc = "returned" /\ ~final_code.isNone) =>
          final_code = AppliedInOrder(initial_code, diffs, Len(diffs))

\* Scenario E: on a\nb\nc an insertion after line 1, then the removal of
\* line 3, which is b only in the output of the first diff
C5_Witness ==
    /\ pc = "loop"
    /\ initial_code = Text_abc
    /\ diffs = <<Diff_Insert, Diff_Remove3>>
    /\ i = 2
    /\ current_code = <<"a", NL, "n", NL, "c">>

-----------------------------------------------------------------------------
(* C6 *)

\* C6 as claimed: the parser strips the marker line's own line end and no
\* more, so that the extracted snapshot of a recorded snapshot with text
\* after its blank lines is the recorded one, those blank lines included.
C6_OnlyMarkerNewlineStripped ==
    (pc \in {"loop", "returned", "opened", "done"} /\ rec.marker = "normal"
        /\ rec.body # <<>>) =>
        initial_code = RecordedSnapshot(rec)

-----------------------------------------------------------------------------
(* C7 *)

\* A hunk after the first whose 0-based start lies before the cursor that
\* the hunk before it left
OverlappingHunk(hunks) ==
    \E k \in 2..Len(hunks) :
        /\ ~old_start_of(hunks[k].header).isNone
        /\ ~old_start_of(hunks[k - 1].header).isNone
        /\ start_pointer(old_start_of(hunks[k].header).val)
              < start_pointer(old_start_of(hunks[k - 1].header).val)
                    + Consumed(hunks[k - 1].body, Len(hunks[k - 1].body))

\* The number of lines with the given marker in the bodies of the hunks
RECURSIVE Marked(_, _)
Marked(hunks, marker) ==
    IF hunks = <<>> THEN 0
    ELSE Cardinality({j \in 1..Len(Head(hunks).body) :
                         /\ Head(hunks).body[j] # <<>>
                         /\ Head(Head(hunks).body[j]) = marker})
         + Marked(Tail(hunks), marker)

\* C7 as claimed: a diff with a hunk anchored before the cursor of the hunk
\* before it is refused; it is never applied with source lines copied twice,
\* that is, with more lines in the result than the source lines plus the
\* added lines less the removed lines.
C7_OverlapRefused ==
    LET hunks == hunks_of(splitlines(last_call.diff))
    IN  (last_call.called /\ HunkForm(last_call.diff) /\ OverlappingHunk(hunks))
            => \/ last_call.result.isNone
               \/ Len(splitlines(last_call.result.val))
                      <= Len(splitlines(last_call.source))
                           + Marked(hunks, "+") - Marked(hunks, "-")

-----------------------------------------------------------------------------
(* C8 *)

\* The snapshot parse_log_file extracts from the log of a recording without
\* diff blocks: what follows the marker line, up to the line end that ends
\* the log if there is one, without its leading \n
ExtractedSnapshot(r) == lstrip_nl(RecordedSnapshot(r))

\* C8: on a log that holds an initial-version marker and no diff block, no
\* diff is found and none applied, no patch fails, and apply_all_diffs
\* returns a text, which is the extracted snapshot, character for character;
\* the run ends neither with the initial version missing nor with a failed
\* patch.
C8_NoDiffsGivesSnapshot ==
    (pc \in {"returned", "opened", "done"} /\ rec.marker # "none"
        /\ rec.diffs = <<>>) =>
        /\ diffs = <<>>
        /\ applied = <<>>
        /\ failed_patch = 0
        /\ initial_code = ExtractedSnapshot(rec)
        /\ final_code = Some(initial_code)
        /\ outcome \notin {"MissingInitialVersion", "PatchFailed"}

\* apply_all_diffs has returned the snapshot a\nb\nc of a log without diff
\* blocks
C8_Witness ==
    /\ pc = "returned"
    /\ IsScenario(rec, Text_abc, <<>>)
    /\ diffs = <<>>
    /\ final_code = Some(Text_abc)

-----------------------------------------------------------------------------
(* C9 *)

\* A blank line: no character but white space
BlankLine(line) == \A k \in 1..Len(line) : IsSpace(line[k])

\* A block without header: it has a first line, which is no hunk header,
\* and each of its lines is an added line or blank
AppendOnly(diff_lines) ==
    /\ diff_lines # <<>>
    /\ ~startswith(diff_lines[1], HUNK_MARK)
    /\ \A k \in 1..Len(diff_lines) :
          (diff_lines[k] # <<>> /\ Head(diff_lines[k]) = "+") \/ BlankLine(diff_lines[k])

\* The added lines of a block without their marker, in order
RECURSIVE AddedTexts(_)
AddedTexts(diff_lines) ==
    IF diff_lines = <<>> THEN <<>>
    ELSE (IF Head(diff_lines) # <<>> /\ Head(Head(diff_lines)) = "+"
          THEN <<Tail(Head(diff_lines))>> ELSE <<>>)
         \o AddedTexts(Tail(diff_lines))

\* C9: for a block without header, all of whose lines are added or blank,
\* the result is the source lines, unchanged and in order, followed by the
\* added lines without their marker, in order, joined by line ends.
C9_AppendOnlyBlock ==
    (last_call.called /\ AppendOnly(splitlines(last_call.diff))) =>
        last_call.result
            = Some(join(splitlines(last_call.source)
                            \o AddedTexts(splitlines(last_call.diff))))

\* Scenario B: x\ny and the block +z give x\ny\nz
C9_Witness ==
    /\ last_call.called
    /\ last_call.source = Text_xy
    /\ last_call.diff = Diff_Append
    /\ last_call.result = Some(Text_xyz)

-----------------------------------------------------------------------------
(* C10 *)

\* C10: on a log without initial-version marker the applicator is never
\* called, whatever diff blocks the log holds, nothing is written, and the
\* run ends with the initial version missing.
C10_MissingInitialVersion ==
    (rec.marker = "none" /\ ~log_file.isNone /\ log_file.readable) =>
        /\ pc \in {"main", "done"}
        /\ applied = <<>>
        /\ last_call = NoCall
        /\ writes = <<>>
        /\ output_file = output_before
        /\ pc = "done" => outcome = "MissingInitialVersion"

\* A run on a log of two diff blocks and no marker has ended
C10_Witness ==
    /\ pc = "done"
    /\ rec.marker = "none"
    /\ Len(rec.diffs) = 2
    /\ outcome = "MissingInitialVersion"

-----------------------------------------------------------------------------
(* C11 *)

\* A diff that must be refused on the source lines: in hunk form, a header
\* that cannot be read or a context or removed line that does not match; in
\* the form without header, a line that is neither added nor blank
Refused(source_lines, diff_lines) ==
    /\ diff_lines # <<>>
    /\ IF startswith(diff_lines[1], HUNK_MARK)
       THEN ~AllConsumedMatch(source_lines, hunks_of(diff_lines))
       ELSE ~AppendOnly(diff_lines)

\* C11: each call of apply_single_diff_robust returns a text, when no line
\* of the diff is refused, or None with a failure reported, when one is;
\* after None the caller holds the source text it passed and gives up with
\* None, so that the lines appended before the failing line are in no text
\* of the state; after a text the caller holds that text.
C11_AllOrNothing ==
    last_call.called =>
        /\ last_call.result.isNone
              <=> Refused(splitlines(last_call.source), splitlines(last_call.diff))
        /\ last_call.result.isNone <=> last_call.error # NoError
        /\ last_call.result.isNone =>
              /\ pc = "returned"
              /\ final_code = None
              /\ current_code = last_call.source
        /\ ~last_call.result.isNone => current_code = last_call.result.val

\* A call refused in its second hunk, after lines were appended for the
\* first
C11_Witness ==
    /\ last_call.called
    /\ last_call.result.isNone
    /\ last_call.error.kind \in {"ContextMismatch", "DeletionMismatch"}
    /\ Len(hunks_of(splitlines(last_call.diff))) = 2
    /\ hunk_walk(last_call.source, last_call.diff).result_lines # <<>>
    /\ current_code = last_call.source

-----------------------------------------------------------------------------
(* C12 *)

\* What stops the walk of the hunks: <<k, 0>> for a header of hunk k that
\* cannot be read, <<k, j>> for line j of the body of hunk k, a context or
\* removed line that does not match the source line at its cursor
Stops(source_lines, hunks) ==
    {<<k, 0>> : k \in {h \in 1..Len(hunks) : old_start_of(hunks[h].header).isNone}}
    \cup
    {kj \in UNION {{<<k, j>> : j \in 1..Len(hunks[k].body)} :
                     k \in {h \in 1..Len(hunks) : ~old_start_of(hunks[h].header).isNone}} :
        LET body == hunks[kj[1]].body
            cursor == start_pointer(old_start_of(hunks[kj[1]].header).val)
                          + Consumed(body, kj[2] - 1)
        IN  /\ Consumes(body[kj[2]])
            /\ ~(cursor < Len(source_lines)
                   /\ source_lines[cursor + 1] = Tail(body[kj[2]]))}

\* The first of them in the order of the walk
FirstStop(S) ==
    CHOOSE f \in S : \A g \in S : f[1] < g[1] \/ (f[1] = g[1] /\ f[2] <= g[2])

\* C12: when the first line that stops a diff is a context line the failure
\* reported is ContextMismatch, when it is a removed line DeletionMismatch,
\* each with the 1-based line of the cursor (cursor + 1), the text of the
\* line as expected, and as actual the source line at the cursor, or EOF
\* when the cursor is at or past the end of the source.  Scenario C: on
\* a\nB a context line b at line 2 gives ContextMismatch(2, b, B).
C12_MismatchReport ==
    /\ (last_call.called /\ HunkForm(last_call.diff)) =>
          LET source_lines == splitlines(last_call.source)
              hunks == hunks_of(splitlines(last_call.diff))
              stops == Stops(source_lines, hunks)
          IN  IF stops = {} \/ FirstStop(stops)[2] = 0
              THEN last_call.error.kind \notin {"ContextMismatch", "DeletionMismatch"}
              ELSE LET f == FirstStop(stops)
                       body == hunks[f[1]].body
                       cursor == start_pointer(old_start_of(hunks[f[1]].header).val)
                                     + Consumed(body, f[2] - 1)
                   IN  last_call.error =
                         [kind |-> IF Head(body[f[2]]) = " " THEN "ContextMismatch"
                                   ELSE "DeletionMismatch",
                          line |-> cursor + 1,
                          expected |-> Tail(body[f[2]]),
                          actual |-> IF cursor < Len(source_lines)
                                     THEN [eof |-> FALSE, text |-> source_lines[cursor + 1]]
                                     ELSE [eof |-> TRUE]]
    /\ (last_call.called /\ last_call.source = Text_aB
            /\ last_call.diff = Diff_Context) =>
          last_call.error =
              [kind |-> "ContextMismatch", line |-> 2, expected |-> <<"b">>,
               actual |-> [eof |-> FALSE, text |-> <<"B">>]]

\* Scenario C has been refused
C12_Witness ==
    /\ pc = "returned"
    /\ last_call.called
    /\ last_call.source = Text_aB
    /\ last_call.diff = Diff_Context
    /\ last_call.result.isNone
    /\ last_call.error.kind = "ContextMismatch"

-----------------------------------------------------------------------------
(* C13 *)

\* C13: the applicator is called for the diffs 1, 2, ... in this order, for
\* each at most once; the call for diff n + 1 is made in the loop, after the
\* call for diff n returned a text and on that diff of the list; after a
\* call that returned None no call follows; the driver, once it has
\* returned, takes no step; every run returns, either with a text after a
\* call for every diff or with None after a failure, never both.
C13_SequentialOnceAndEnds ==
    /\ [](/\ Len(applied) <= Len(diffs)
          /\ \A n \in 1..Len(applied) : applied[n] = n)
    /\ [][applied' # applied =>
              /\ pc = "loop"
              /\ applied' = Append(applied, Len(applied) + 1)
              /\ last_call'.called
              /\ last_call'.diff = diffs[Len(applied) + 1]
              /\ last_call.called => ~last_call.result.isNone]_vars
    /\ [][pc = "returned" => UNCHANGED vars]_vars
    /\ [](pc = "returned" =>
              IF final_code.isNone
              THEN /\ failed_patch = Len(applied)
                   /\ failed_patch > 0
                   /\ last_call.result.isNone
              ELSE /\ failed_patch = 0
                   /\ Len(applied) = Len(diffs))
    /\ <>[](pc = "returned")

\* The driver has returned a text after three calls, one for each diff
C13_Witness ==
    /\ pc = "returned"
    /\ Len(diffs) = 3
    /\ applied = <<1, 2, 3>>
    /\ ~final_code.isNone
    /\ current_code # initial_code

-----------------------------------------------------------------------------
(* C14 *)

\* The lines at the 0-based positions lo, ..., hi - 1 that the source has
Between(lines, lo, hi) ==
    LET top == IF hi < Len(lines) THEN hi ELSE Len(lines)
    IN  [k \in 1..(IF top > lo THEN top - lo ELSE 0) |-> lines[lo + k]]

\* The texts of the context and added lines of a hunk body, in order
RECURSIVE OutOf(_)
OutOf(body) ==
    IF body = <<>> THEN <<>>
    ELSE (IF Head(body) # <<>> /\ Head(Head(body)) \in {" ", "+"}
          THEN <<Tail(Head(body))>> ELSE <<>>)
         \o OutOf(Tail(body))

\* The reference result from the end of the hunk before: the source lines
\* up to the start of the next hunk, what that hunk puts out, and so on; the
\* rest of the source after the last hunk
RECURSIVE Reference(_, _, _)
Reference(source_lines, hunks, end_before) ==
    IF hunks = <<>> THEN Between(source_lines, end_before, Len(source_lines))
    ELSE LET start == start_pointer(old_start_of(Head(hunks).header).val)
             end == start + Consumed(Head(hunks).body, Len(Head(hunks).body))
         IN  Between(source_lines, end_before, start)
                 \o OutOf(Head(hunks).body)
                 \o Reference(source_lines, Tail(hunks), end)

\* C14: when a diff in hunk form is applied and no hunk starts before the
\* end of the hunk before it, the lines joined into the result are the
\* reference: the source lines between the hunks, unchanged, once and in
\* order, with each hunk's context and added texts in their place; and
\* their number is that of the source lines plus the added lines less the
\* removed lines.
C14_ReferenceResult ==
    LET source_lines == splitlines(last_call.source)
        hunks == hunks_of(splitlines(last_call.diff))
    IN  (/\ last_call.called
         /\ HunkForm(last_call.diff)
         /\ ~last_call.result.isNone
         /\ ~OverlappingHunk(hunks)) =>
            /\ last_call.result = Some(join(Reference(source_lines, hunks, 0)))
            /\ Len(Reference(source_lines, hunks, 0))
                  = Len(source_lines) + Marked(hunks, "+") - Marked(hunks, "-")

\* On a\nb\nc a hunk at line 2 that removes b and a hunk at line 3 that adds
\* B: a is copied through, c is copied after the last hunk
C14_Witness ==
    /\ last_call.called
    /\ last_call.source = Text_abc
    /\ Len(hunks_of(splitlines(last_call.diff))) = 2
    /\ ~OverlappingHunk(hunks_of(splitlines(last_call.diff)))
    /\ Marked(hunks_of(splitlines(last_call.diff)), "-") = 1
    /\ Marked(hunks_of(splitlines(last_call.diff)), "+") = 1
    /\ last_call.result = Some(Text_aBc)

-----------------------------------------------------------------------------
(* C15 *)

\* C15: a diff whose first line does not start with the hunk mark and that
\* holds a line that is neither blank nor added is refused as of an unknown
\* format, reported with its first line; the driver gives up with None and
\* still holds the text it passed, with none of the added lines in it.  A
\* hunk header after a blank line is such a line.
C15_UnrecognizedFormat ==
    LET diff_lines == splitlines(last_call.diff)
    IN  (/\ last_call.called
         /\ diff_lines # <<>>
         /\ ~startswith(diff_lines[1], HUNK_MARK)
         /\ \E k \in 1..Len(diff_lines) :
               /\ ~BlankLine(diff_lines[k])
               /\ Head(diff_lines[k]) # "+") =>
            /\ last_call.result.isNone
            /\ last_call.error =
                  [kind |-> "UnrecognizedDiffFormat", header |-> diff_lines[1]]
            /\ pc = "returned"
            /\ final_code = None
            /\ current_code = last_call.source

\* A block of a blank line, a hunk header and an added line has been
\* refused
C15_Witness ==
    /\ pc = "returned"
    /\ last_call.called
    /\ last_call.source = Text_abc
    /\ last_call.diff = join(<<<<>>, Header(1), <<"+", "B">>>>)
    /\ last_call.result.isNone
    /\ last_call.error.kind = "UnrecognizedDiffFormat"

-----------------------------------------------------------------------------
(* C16 *)

\* A line of a hunk body that is skipped: an empty line, or a line whose
\* first character is none of " ", "+", "-" (a line that starts with the
\* hunk mark is a header and in no body)
Skipped(line) ==
    \/ line = <<>>
    \/ /\ Head(line) \notin {" ", "+", "-"}
       /\ ~startswith(line, HUNK_MARK)

\* The lines of a diff without those that are skipped
Unskipped(diff_lines) == SelectSeq(diff_lines, LAMBDA line : ~Skipped(line))

\* C16: the outcome of a call on a diff in hunk form, the text returned or
\* the failure reported, is the outcome of the call on the same diff with
\* the skipped lines of its bodies deleted; a diff of one hunk whose body
\* holds skipped lines only returns the lines of the source.
C16_SkippedLinesIgnored ==
    LET source_lines == splitlines(last_call.source)
        diff_lines == splitlines(last_call.diff)
    IN  (last_call.called /\ HunkForm(last_call.diff)) =>
            /\ [result |-> last_call.result, error |-> last_call.error]
                  = apply_diff_run(last_call.source, join(Unskipped(diff_lines)))
            /\ (/\ Len(hunks_of(diff_lines)) = 1
                /\ \A k \in 2..Len(diff_lines) : Skipped(diff_lines[k]))
                  => (last_call.error.kind
                          \in {"none", "BadHunkHeader", "HeaderNumberConversion"}
                        /\ (~last_call.result.isNone
                               => last_call.result = Some(join(source_lines))))

\* A hunk whose body is a line with the marker \ and then a removed line
\* has been applied: the first is skipped and the second removes its line
C16_Witness ==
    /\ last_call.called
    /\ HunkForm(last_call.diff)
    /\ last_call.source = Text_abc
    /\ LET hunks == hunks_of(splitlines(last_call.diff))
       IN  /\ Len(hunks) = 1
           /\ hunks[1].body = <<<<"\\", "n">>, <<"-", "b">>>>
    /\ last_call.result = Some(<<"a", NL, "c">>)

-----------------------------------------------------------------------------
(* C17 *)

\* The lines of a diff in hunk form with the old start of the first header
\* replaced by 1
WithOldStart1(diff_lines) ==
    LET h == diff_lines[1]
    IN  <<SubSeq(h, 1, 4) \o <<"1">> \o SubSeq(h, DigitRunEnd(h, 5), Len(h))>>
            \o Tail(diff_lines)

\* C17: the outcome of a call on a diff whose first hunk has the old start
\* 0, the text returned or the failure reported, is the outcome of the call
\* on the same diff with that old start replaced by 1; and when the diff is
\* that hunk alone and is applied, nothing is copied before the hunk: the
\* result is what the hunk puts out, then the source lines after those it
\* consumed from line 1 on.
C17_OldStartZero ==
    LET source_lines == splitlines(last_call.source)
        diff_lines == splitlines(last_call.diff)
        hunks == hunks_of(diff_lines)
    IN  (/\ last_call.called
         /\ HunkForm(last_call.diff)
         /\ old_start_of(diff_lines[1]) = Some(0)) =>
            /\ [result |-> last_call.result, error |-> last_call.error]
                  = apply_diff_run(last_call.source, join(WithOldStart1(diff_lines)))
            /\ (Len(hunks) = 1 /\ ~last_call.result.isNone) =>
                  last_call.result =
                      Some(join(OutOf(hunks[1].body)
                                \o Between(source_lines,
                                           Consumed(hunks[1].body, Len(hunks[1].body)),
                                           Len(source_lines))))

\* A hunk with the old start 0 that holds the context line a and an added
\* line has been applied to a\nb\nc
C17_Witness ==
    /\ last_call.called
    /\ last_call.source = Text_abc
    /\ last_call.diff = join(<<Header(0), <<" ", "a">>, <<"+", "B">>>>)
    /\ last_call.result = Some(<<"a", NL, "B", NL, "b", NL, "c">>)

-----------------------------------------------------------------------------
(* C18 *)

\* The diffs of a list that have a body, in order
WithBody(ds) == SelectSeq(ds, LAMBDA d : d # <<>>)

\* C18: a call on a diff with an empty body returns the source text it was
\* given, character for character, and reports no failure; and what
\* apply_all_diffs returns for a list that holds such diffs is what the
\* list without them gives.
C18_EmptyDiffIdentity ==
    /\ (last_call.called /\ last_call.diff = <<>>) =>
          /\ last_call.result = Some(last_call.source)
          /\ last_call.error = NoError
          /\ current_code = last_call.source
    /\ (pc = "returned" /\ \E k \in 1..Len(diffs) : diffs[k] = <<>>) =>
          final_code = AppliedInOrder(initial_code, WithBody(diffs),
                                      Len(WithBody(diffs)))

\* Scenario E with a diff of an empty body between its two diffs
C18_Witness ==
    /\ pc = "returned"
    /\ initial_code = Text_abc
    /\ diffs = <<Diff_Insert, <<>>, Diff_Remove3>>
    /\ applied = <<1, 2, 3>>
    /\ final_code = Some(<<"a", NL, "n", NL, "c">>)

-----------------------------------------------------------------------------
(* C19 *)

\* C19 as claimed: a log whose initial-version marker is followed by no
\* snapshot text is parsed to the empty initial code and the run does not
\* end with the initial version missing; every run whose final code is the
\* empty text ends in success with the empty text written and in the output
\* file; a run ends as failed only with None for its final code.
C19_EmptyTextAlwaysWritten ==
    /\ (rec.marker # "none" /\ RecordedSnapshot(rec) = <<>>) =>
          /\ pc \in {"loop", "returned", "opened", "done"} => initial_code = <<>>
          /\ outcome # "MissingInitialVersion"
    /\ (pc = "done" /\ final_code = Some(<<>>)) =>
          /\ outcome = "Restored"
          /\ writes = <<<<>>>>
          /\ output_file = Some(<<>>)
    /\ (pc = "done" /\ outcome = "PatchFailed") => final_code = None

\* C19, amended: a log whose initial-version marker is followed by no
\* snapshot text is parsed to the empty initial code, the run does not end
\* with the initial version missing and, without diff blocks, its final code
\* is the empty text.  A run whose final code is not None, also when that
\* code is the empty text, never ends as a failed patch: it goes on to the
\* output, and it ends in success, the text written once and in the output
\* file, exactly when the file system takes the output; for the empty text
\* that is whenever the output path can be opened.  A run ends as a failed
\* patch only with None for its final code, after a refused patch.
C19_EmptyTextIsSuccess ==
    /\ (rec.marker # "none" /\ RecordedSnapshot(rec) = <<>>) =>
          /\ pc \in {"loop", "returned", "opened", "done"} => initial_code = <<>>
          /\ outcome # "MissingInitialVersion"
          /\ (pc \in {"returned", "opened", "done"} /\ rec.diffs = <<>>) =>
                final_code = Some(<<>>)
    /\ (pc = "done" /\ ~final_code.isNone) =>
          /\ outcome \in {"Restored"} \cup OutputFailures
          /\ outcome = "Restored" <=> OutputAccepted
          /\ outcome = "Restored" =>
                (writes = <<final_code.val>> /\ output_file = final_code)
    /\ (pc = "done" /\ final_code = Some(<<>>) /\ env.output = "openable") =>
          /\ outcome = "Restored"
          /\ writes = <<<<>>>>
          /\ output_file = Some(<<>>)
    /\ (pc = "done" /\ outcome = "PatchFailed") =>
          /\ final_code = None
          /\ failed_patch > 0
          /\ last_call.result = None

\* A run on the snapshot x\ny and a diff that removes both lines has ended
\* in success, and the output file that held a text now holds the empty text
C19_Witness ==
    /\ pc = "done"
    /\ IsScenario(rec, Text_xy, <<Diff_RemoveAll>>)
    /\ final_code = Some(<<>>)
    /\ outcome = "Restored"
    /\ output_before = Some(OldOutput)
    /\ output_file = Some(<<>>)

-----------------------------------------------------------------------------
(* C20 *)

\* The hunks whose anchor lies beyond the end of the source: old start - 1
\* is more than the number of source lines
Beyond(source_lines, hunks) ==
    {k \in 1..Len(hunks) :
        /\ ~old_start_of(hunks[k].header).isNone
        /\ old_start_of(hunks[k].header).val - 1 > Len(source_lines)}

\* What the hunks put out, in order
RECURSIVE OutOfAll(_)
OutOfAll(hunks) ==
    IF hunks = <<>> THEN <<>> ELSE OutOf(Head(hunks).body) \o OutOfAll(Tail(hunks))

\* C20 as claimed: for a diff in hunk form with a hunk anchored beyond the
\* end of the source: if such a hunk holds a context or removed line the
\* diff is refused, and when the line that stops the diff is in such a hunk
\* the failure is reported at the hunk's old start with the line's text as
\* expected and EOF as actual; otherwise the diff is applied, and the result
\* is the result of the hunks before the first such hunk, which holds every
\* source line they did not remove, followed by the added lines of the
\* hunks from that one on, with nothing after them.
C20_AnchorBeyondEnd ==
    LET source_lines == splitlines(last_call.source)
        hunks == hunks_of(splitlines(last_call.diff))
        beyond == Beyond(source_lines, hunks)
        stops == Stops(source_lines, hunks)
    IN  (/\ last_call.called
         /\ HunkForm(last_call.diff)
         /\ beyond # {}) =>
            /\ (\E k \in beyond : Consumed(hunks[k].body, Len(hunks[k].body)) > 0)
                  => last_call.result.isNone
            /\ (stops # {} /\ FirstStop(stops)[1] \in beyond) =>
                  LET f == FirstStop(stops)
                  IN  last_call.error =
                        [kind |-> IF Head(hunks[f[1]].body[f[2]]) = " "
                                  THEN "ContextMismatch" ELSE "DeletionMismatch",
                         line |-> old_start_of(hunks[f[1]].header).val,
                         expected |-> Tail(hunks[f[1]].body[f[2]]),
                         actual |-> [eof |-> TRUE]]
            /\ ~last_call.result.isNone =>
                  LET first == Min(beyond)
                      before == Reference(source_lines, SubSeq(hunks, 1, first - 1), 0)
                      added == OutOfAll(SubSeq(hunks, first, Len(hunks)))
                  IN  /\ last_call.result = Some(join(before \o added))
                      /\ Len(before) = Len(source_lines)
                            + Marked(SubSeq(hunks, 1, first - 1), "+")
                            - Marked(SubSeq(hunks, 1, first - 1), "-")
                      /\ first = 1 => before = source_lines

=============================================================================
